---- MODULE Spec2Model ----
(***************************************************************************)
(* The Streamlit dashboard of goggle_search_analysis.py: the handler of    *)
(* the "Run analysis" button, the trends adapter it calls and the tables   *)
(* it renders.                                                             *)
(*                                                                         *)
(* A text is a sequence of units.  A unit is one character (the letter a,  *)
(* the blank, the comma) or the word isPartial typed as a whole, which is  *)
(* the name of the partial-period column of the upstream time series.  A   *)
(* keyword and a column name are texts.                                    *)
(***************************************************************************)
EXTENDS Integers, Sequences, FiniteSets, TLC

\* ------------------------------------------------------------------ bounds
MaxLen == 3     \* units of the keyword text
MaxRows == 1    \* rows of a region table in a full run

\* ------------------------------------------------------------ user inputs
Units == {"a", "isPartial", " ", ","}
Whitespace == {" "}

RECURSIVE TextsUpTo(_)
TextsUpTo(n) ==
  IF n = 0 THEN {<<>>}
  ELSE LET shorter == TextsUpTo(n - 1)
       IN  shorter \cup {Append(t, u) : t \in {s \in shorter : Len(s) = n - 1}, u \in Units}

Texts == TextsUpTo(MaxLen)

\* the sidebar: the defaults, and one setting with every value changed
Queries ==
  {[timeframe |-> "today 12-m", geo |-> "", cat |-> 0],
   [timeframe |-> "all", geo |-> "US", cat |-> 700]}
Resolutions == {"COUNTRY", "REGION", "CITY"}

\* --------------------------------------------------------- keyword parsing
\* str.split(","): the fields between the commas, empty fields included
RECURSIVE split(_)
split(s) ==
  IF s = <<>> THEN << <<>> >>
  ELSE LET rest == split(Tail(s))
       IN  IF Head(s) = "," THEN << <<>> >> \o rest
           ELSE << <<Head(s)>> \o Head(rest) >> \o Tail(rest)

RECURSIVE lstrip(_)
lstrip(s) ==
  IF s # <<>> /\ Head(s) \in Whitespace THEN lstrip(Tail(s)) ELSE s

RECURSIVE rstrip(_)
rstrip(s) ==
  IF s # <<>> /\ s[Len(s)] \in Whitespace THEN rstrip(SubSeq(s, 1, Len(s) - 1)) ELSE s

\* str.strip()
strip(s) == rstrip(lstrip(s))

RECURSIVE StripAll(_)
StripAll(fields) ==
  IF fields = <<>> THEN <<>>
  ELSE <<strip(Head(fields))>> \o StripAll(Tail(fields))

NonBlank(k) == k # <<>>

\* the fields kept as typed: neither stripped nor tested stripped
ParseKeywordsUnstripped(text) == SelectSeq(split(text), NonBlank)

\* [k.strip() for k in default_keywords.split(",") if k.strip()]
ParseKeywords(text) == SelectSeq(StripAll(split(text)), NonBlank)

\* ------------------------------------------------------------------ tables
Range(s) == {s[i] : i \in 1..Len(s)}

\* list(dict.fromkeys(s)): the first occurrence of each element, in order
RECURSIVE Distinct(_)
Distinct(s) ==
  IF s = <<>> THEN <<>>
  ELSE LET init == Distinct(SubSeq(s, 1, Len(s) - 1))
           last == s[Len(s)]
       IN  IF last \in Range(init) THEN init ELSE Append(init, last)

DateCol == <<"date">>
PartialCol == <<"isPartial">>

\* pd.DataFrame()
EmptyFrame == [cols |-> <<>>, nrows |-> 0]

\* a test of the columns alone
EmptyNoColumns(df) == df.cols = <<>>

\* DataFrame.empty
Empty(df) == df.cols = <<>> \/ df.nrows = 0

NotPartial(c) == c # PartialCol


\* ---------------------------------------------------------- tabular export
MaxCsvCells == 4

\* a cell as DataFrame.to_csv writes it: a text of letters, commas, double
\* quotes and line feeds
Cells ==
  {<<>>, <<"x">>, <<",">>, <<"\"">>, <<"\n">>, <<"\"", "\"">>, <<"x", "\n", "x">>}

\* the tables of at most MaxCsvCells cells, the header cells included: one
\* column at least, any number of rows
CsvTables ==
  UNION {[columns : [1..c -> Cells], rows : [1..r -> [1..c -> Cells]]] :
           <<c, r>> \in {sh \in (1..MaxCsvCells) \X (0..MaxCsvCells) :
                           sh[1] * (sh[2] + 1) <= MaxCsvCells}}

RECURSIVE DoubleQuotes(_)
DoubleQuotes(f) ==
  IF f = <<>> THEN <<>>
  ELSE (IF Head(f) = "\"" THEN <<"\"", "\"">> ELSE <<Head(f)>>) \o DoubleQuotes(Tail(f))

\* csv.QUOTE_MINIMAL: a field holding the delimiter, the quote character or
\* the line terminator is quoted, its quotes doubled
NeedsQuotes(f) == \E i \in 1..Len(f) : f[i] \in {",", "\"", "\n"}
WriteField(f) == IF NeedsQuotes(f) THEN <<"\"">> \o DoubleQuotes(f) \o <<"\"">> ELSE f

RECURSIVE JoinFields(_)
JoinFields(fields) ==
  IF Len(fields) = 1 THEN WriteField(fields[1])
  ELSE WriteField(fields[1]) \o <<",">> \o JoinFields(Tail(fields))

\* one line of the file; a lone empty field is written as ""
WriteRow(fields) ==
  IF fields = << <<>> >> THEN <<"\"", "\"", "\n">>
  ELSE JoinFields(fields) \o <<"\n">>

RECURSIVE WriteRows(_)
WriteRows(rows) ==
  IF rows = <<>> THEN <<>> ELSE WriteRow(Head(rows)) \o WriteRows(Tail(rows))

\* df.to_csv(buf, index=False): the header line, then one line per row
to_csv(df) == WriteRow(df.columns) \o WriteRows(df.rows)

\* io.BytesIO after a write of data: the position is at the end
Written(data) == [data |-> data, pos |-> Len(data)]

\* buf.seek(0)
seek(buf, pos) == [buf EXCEPT !.pos = pos]

\* the buffer returned without the seek
df_to_csv_bytes_no_seek(df) == Written(to_csv(df))

df_to_csv_bytes(df) == seek(Written(to_csv(df)), 0)

\* buf.read(): the bytes from the position on
read(buf) == SubSeq(buf.data, buf.pos + 1, Len(buf.data))

\* a reader of delimited text: mode is "start" at the start of a field,
\* "plain" in an unquoted field, "quoted" in a quoted one and "quote" after
\* a quote seen in a quoted field
RECURSIVE ReadRecords(_, _, _, _, _)
ReadRecords(s, mode, field, rec, recs) ==
  IF s = <<>>
  THEN IF mode = "start" /\ rec = <<>> THEN recs ELSE Append(recs, Append(rec, field))
  ELSE LET c == Head(s)
           t == Tail(s)
       IN  IF mode = "quoted"
           THEN IF c = "\"" THEN ReadRecords(t, "quote", field, rec, recs)
                ELSE ReadRecords(t, "quoted", Append(field, c), rec, recs)
           ELSE IF c = "\"" /\ mode = "start" THEN ReadRecords(t, "quoted", field, rec, recs)
           ELSE IF c = "\"" /\ mode = "quote"
                THEN ReadRecords(t, "quoted", Append(field, c), rec, recs)
           ELSE IF c = "," THEN ReadRecords(t, "start", <<>>, Append(rec, field), recs)
           ELSE IF c = "\n"
                THEN IF mode = "start" /\ rec = <<>>
                     THEN ReadRecords(t, "start", <<>>, <<>>, Append(recs, <<>>))
                     ELSE ReadRecords(t, "start", <<>>, <<>>, Append(recs, Append(rec, field)))
           ELSE ReadRecords(t, "plain", Append(field, c), rec, recs)

NoTable == [columns |-> <<>>, rows |-> <<>>]

\* the table a delimited text stands for: the first record is the header
read_csv(text) ==
  LET recs == ReadRecords(text, "start", <<>>, <<>>, <<>>)
  IN  IF recs = <<>> THEN NoTable ELSE [columns |-> Head(recs), rows |-> Tail(recs)]

NoExport == [phase |-> "none", table |-> NoTable, buf |-> Written(<<>>), parsed |-> NoTable]

\* ---------------------------------------------------------- trends adapter
VARIABLES
  pc,                \* position of the script: idle, init, iot, region, related, done
  default_keywords,  \* sidebar: the comma-separated keyword text
  timeframe,         \* sidebar: timeframe token
  geo,               \* sidebar: geography code
  resolution,        \* sidebar: region resolution
  cat,               \* sidebar: category
  keywords,          \* the parsed keyword list of this run
  calls,             \* calls made on the pytrends handle in this run, in order
  out,               \* elements written to the page in this run, in order
  status,            \* per stage: "none", "raised" or "returned"
  iot,               \* what fetch_interest_over_time returned
  iregion,           \* what fetch_interest_by_region returned
  related,           \* what fetch_related_queries returned
  export             \* a table, the buffer it was exported to, the table read back

vars == <<pc, default_keywords, timeframe, geo, resolution, cat, keywords,
          calls, out, status, iot, iregion, related, export>>

Call(op, args) == [op |-> op, args |-> args]

\* a payload built without the geography
build_payload_no_geo(log, kw_list, tf, g, c) ==
  Append(log, Call("build_payload", <<kw_list, tf, "", c>>))

\* pytrends.build_payload(kw_list, timeframe=timeframe, geo=geo, cat=cat)
build_payload(log, kw_list, tf, g, c) ==
  Append(log, Call("build_payload", <<kw_list, tf, g, c>>))

\* the calls of one fetch_* function: the payload build, then the lookup
\* unless the build raised
FetchCalls(log, kw_list, tf, g, c, op, args, buildOk) ==
  LET built == build_payload(log, kw_list, tf, g, c)
  IN  IF buildOk THEN Append(built, Call(op, args)) ELSE built

\* the row counts the script tells apart: no row, some rows
SeriesRows == {0, 1}

\* what pytrends.interest_over_time() can do: raise, or return a table with
\* one column per distinct keyword and, when the upstream adds it, isPartial
IotFrames(kw_list) ==
  {[cols |-> IF partial THEN Distinct(Append(kw_list, PartialCol)) ELSE Distinct(kw_list),
    nrows |-> n] : partial \in BOOLEAN, n \in SeriesRows}

\* fetch_interest_over_time keeping the isPartial column
fetch_interest_over_time_keep_partial(df) ==
  IF Empty(df) THEN EmptyFrame
  ELSE [cols |-> <<DateCol>> \o df.cols, nrows |-> df.nrows]

\* the rest of fetch_interest_over_time once the upstream returned df
fetch_interest_over_time(df) ==
  IF Empty(df) THEN EmptyFrame
  ELSE [cols |-> SelectSeq(<<DateCol>> \o df.cols, NotPartial), nrows |-> df.nrows]

\* ------------------------------------------------------------ page elements
Ev(stage, w, v) == [stage |-> stage, w |-> w, v |-> v]

\* the handler of the outermost try
OuterExcept ==
  << Ev("run", "error", <<"An error occurred">>),
     Ev("run", "write", <<"Tip: make sure you have internet access and pytrends installed.">>) >>

\* the lines drawn on the chart: one ax.plot per keyword that is a column
PlottedLines(kw_list, df) ==
  LET IsCol(kw) == kw \in Range(df.cols) IN SelectSeq(kw_list, IsCol)

\* what the interest-over-time stage writes for the table df
IotElements(kw_list, df) ==
  IF Empty(df)
  THEN << Ev("iot", "warning", <<"No data returned for the chosen parameters.">>) >>
  ELSE << Ev("iot", "subheader", <<"Interest over time">>),
          Ev("iot", "write", <<"Interactive table:">>),
          Ev("iot", "dataframe", <<df>>),
          Ev("iot", "pyplot", PlottedLines(kw_list, df)),
          Ev("iot", "download_button", << <<"interest_over_time.csv">> >>) >>

\* ------------------------------------------------------------ region table
TopN == 20
MaxRegionRows == 21

\* a region table: the name of its index and its rows, each the region (the
\* index label) and the value in the column of the first keyword; the columns
\* of the other keywords are never read
Row(label, val) == [label |-> label, val |-> val]

\* the tables the upstream may return: n rows whose values follow i*m mod k
RegionRows(n, m, k) == [i \in 1..n |-> Row(i, (i * m) % k)]

RegionFrames(maxn, mults, mods) ==
  {[none |-> FALSE, index_name |-> ix, rows |-> RegionRows(n, m, k)] :
     ix \in {"geoName", "index"}, n \in 0..maxn, m \in mults, k \in mods}

NoRegion == [none |-> TRUE, index_name |-> "index", rows |-> <<>>]

\* iregion is None or iregion.empty
RegionEmpty(fr) == fr.none \/ fr.rows = <<>>

\* the place of a row in a table sorted ascending
RECURSIVE InsertAsc(_, _)
InsertAsc(row, sorted) ==
  IF sorted = <<>> THEN <<row>>
  ELSE IF Head(sorted).val <= row.val
       THEN <<Head(sorted)>> \o InsertAsc(row, Tail(sorted))
       ELSE <<row>> \o sorted

\* the place of a row in a table sorted by value, descending: after the rows
\* that are no smaller
RECURSIVE InsertDesc(_, _)
InsertDesc(row, sorted) ==
  IF sorted = <<>> THEN <<row>>
  ELSE IF Head(sorted).val >= row.val
       THEN <<Head(sorted)>> \o InsertDesc(row, Tail(sorted))
       ELSE <<row>> \o sorted

\* DataFrame.sort_values(by=keywords[0], ascending=False)
RECURSIVE sort_values(_)
sort_values(rows) ==
  IF rows = <<>> THEN <<>>
  ELSE InsertDesc(rows[Len(rows)], sort_values(SubSeq(rows, 1, Len(rows) - 1)))

\* DataFrame.head(n)
head(rows, n) == SubSeq(rows, 1, IF Len(rows) < n THEN Len(rows) ELSE n)

\* iregion.sort_values(by=keywords[0], ascending=False).head(20).reset_index()
top_regions(fr, kw_list) ==
  [cols |-> << <<fr.index_name>> >> \o Distinct(kw_list),
   rows |-> head(sort_values(fr.rows), TopN)]

\* the test of the region-name column alone
MapWantedAnyResolution(res, top) == <<"geoName">> \in Range(top.cols)

\* resolution == 'COUNTRY' and 'geoName' in top_regions.columns
MapWanted(res, top) == res = "COUNTRY" /\ <<"geoName">> \in Range(top.cols)

\* keywords[0] if keywords[0] in top_regions.columns else top_regions.columns[-1]
col_to_plot(kw_list, top) ==
  IF kw_list[1] \in Range(top.cols) THEN kw_list[1] ELSE top.cols[Len(top.cols)]

\* what the region stage writes once the fetch returned fr
RegionElements(kw_list, res, fr, mapOk) ==
  IF RegionEmpty(fr)
  THEN << Ev("region", "warning", <<"No region data available.">>) >>
  ELSE LET top == top_regions(fr, kw_list) IN
       << Ev("region", "dataframe", <<top>>) >> \o
       (IF MapWanted(res, top)
        THEN << Ev("region", "choropleth", <<col_to_plot(kw_list, top)>>) >> \o
             (IF mapOk
              THEN << Ev("region", "plotly_chart", <<col_to_plot(kw_list, top)>>) >>
              ELSE << Ev("region", "info", <<"Could not render world map">>) >>)
        ELSE <<>>)

\* ----------------------------------------------------------- related queries
SubTables == {"None", "empty", "rows"}

\* what the mapping holds for one keyword: no key, None, or an entry with
\* its 'top' and 'rising' sub-tables ("None" also stands for a missing key)
Entries ==
  {[kind |-> "absent", top |-> "None", rising |-> "None"],
   [kind |-> "None", top |-> "None", rising |-> "None"]} \cup
  {[kind |-> "entry", top |-> t, rising |-> r] : t \in SubTables, r \in SubTables}

RelatedResults(kw_list) == [Range(kw_list) -> Entries]

\* top_df is not None and not top_df.empty
HasRows(t) == t = "rows"

\* key=f"dl_top{kw}" and key=f"dl_rising{kw}"
KeyTop(kw) == <<"dl_top">> \o kw
KeyRising(kw) == <<"dl_rising">> \o kw

\* kw in related and related[kw] is not None
HasEntry(rel, kw) == kw \in DOMAIN rel /\ rel[kw].kind = "entry"

\* one pass of the loop over the keywords
RelatedElementsFor(rel, kw) ==
  << Ev("related", "markdown", <<kw>>) >> \o
  (IF HasEntry(rel, kw)
   THEN (IF HasRows(rel[kw].top)
         THEN << Ev("related", "write", <<"Top related queries">>),
                 Ev("related", "dataframe", <<"top", kw>>),
                 Ev("related", "download_button", <<KeyTop(kw)>>) >>
         ELSE <<>>) \o
        (IF HasRows(rel[kw].rising)
         THEN << Ev("related", "write", <<"Rising related queries">>),
                 Ev("related", "dataframe", <<"rising", kw>>),
                 Ev("related", "download_button", <<KeyRising(kw)>>) >>
         ELSE <<>>)
   ELSE << Ev("related", "write", <<"No related queries returned.">>) >>)

\* for kw in keywords: ...
RECURSIVE RelatedLoop(_, _)
RelatedLoop(rel, kw_list) ==
  IF kw_list = <<>> THEN <<>>
  ELSE RelatedElementsFor(rel, Head(kw_list)) \o RelatedLoop(rel, Tail(kw_list))

\* Streamlit refuses a widget whose key is already on the page: the call
\* raises DuplicateWidgetID.  The first such call in evs, or 0.
IsDuplicate(evs, j) ==
  /\ evs[j].w = "download_button"
  /\ \E i \in 1..(j - 1) : evs[i].w = "download_button" /\ evs[i].v = evs[j].v

FirstDuplicate(evs) ==
  IF \E j \in 1..Len(evs) : IsDuplicate(evs, j)
  THEN CHOOSE j \in 1..Len(evs) :
         IsDuplicate(evs, j) /\ \A i \in 1..(j - 1) : ~IsDuplicate(evs, i)
  ELSE 0

RelatedError == Ev("related", "error", <<"Error fetching related queries">>)

\* the body of the related-queries try: the loop runs until a call raises,
\* and the except clause reports it
RelatedElements(rel, kw_list) ==
  LET evs == RelatedLoop(rel, kw_list)
      d == FirstDuplicate(evs)
  IN  IF d = 0 THEN evs ELSE Append(SubSeq(evs, 1, d), RelatedError)
Stages == {"iot", "region", "related"}
NoStatus == [s \in Stages |-> "none"]

Init ==
  /\ pc = "idle"
  /\ default_keywords = <<>>
  /\ timeframe = "today 12-m"
  /\ geo = ""
  /\ resolution = "COUNTRY"
  /\ cat = 0
  /\ keywords = <<>>
  /\ calls = <<>>
  /\ out = <<>>
  /\ status = NoStatus
  /\ iot = EmptyFrame
  /\ iregion = NoRegion
  /\ related = <<>>
  /\ export = NoExport

\* the button is pressed: the script runs from the top with the sidebar values
RunAnalysis ==
  /\ pc = "idle"
  /\ \E text \in Texts, q \in Queries, r \in Resolutions :
       LET kws == ParseKeywords(text) IN
       /\ default_keywords' = text
       /\ timeframe' = q.timeframe
       /\ geo' = q.geo
       /\ resolution' = r
       /\ cat' = q.cat
       /\ keywords' = kws
       /\ IF kws = <<>>
          THEN /\ out' = << Ev("run", "error", <<"Please enter at least one keyword.">>) >>
               /\ pc' = "done"
          ELSE /\ out' = << Ev("run", "info", <<kws, q.timeframe, q.geo>>) >>
               /\ pc' = "init"
  /\ calls' = <<>>
  /\ status' = NoStatus
  /\ iot' = EmptyFrame
  /\ iregion' = NoRegion
  /\ related' = <<>>
  /\ UNCHANGED export

\* pytrends = init_pytrends()
InitPytrends ==
  /\ pc = "init"
  /\ \E ok \in BOOLEAN :
       IF ok THEN pc' = "iot" /\ out' = out
       ELSE pc' = "done" /\ out' = out \o OuterExcept
  /\ UNCHANGED <<export, default_keywords, timeframe, geo, resolution, cat, keywords,
                 calls, status, iot, iregion, related>>

\* the interest-over-time stage: a failure of the fetch reaches the outermost
\* handler, which ends the run
InterestOverTime ==
  /\ pc = "iot"
  /\ \/ \E buildOk \in BOOLEAN :
          /\ calls' = FetchCalls(calls, keywords, timeframe, geo, cat,
                                 "interest_over_time", <<>>, buildOk)
          /\ iot' = iot
          /\ status' = [status EXCEPT !["iot"] = "raised"]
          /\ out' = out \o OuterExcept
          /\ pc' = "done"
     \/ \E df \in IotFrames(keywords) :
          /\ calls' = FetchCalls(calls, keywords, timeframe, geo, cat,
                                 "interest_over_time", <<>>, TRUE)
          /\ iot' = fetch_interest_over_time(df)
          /\ status' = [status EXCEPT !["iot"] = "returned"]
          /\ out' = out \o IotElements(keywords, iot')
          /\ pc' = "region"
  /\ UNCHANGED <<export, default_keywords, timeframe, geo, resolution, cat, keywords,
                 iregion, related>>

RegionHeader == Ev("region", "subheader", <<"Interest by region">>)
RegionError == Ev("region", "error", <<"Error fetching region data">>)

\* the outcomes of the choropleth render that can be told apart
MapOutcomes(kw_list, res, fr) ==
  IF ~RegionEmpty(fr) /\ MapWanted(res, top_regions(fr, kw_list)) THEN BOOLEAN ELSE {TRUE}

\* the interest-by-region stage, the upstream answering with a table of frames
RegionStage(frames) ==
  /\ pc = "region"
  /\ \/ \E buildOk \in BOOLEAN :
          /\ calls' = FetchCalls(calls, keywords, timeframe, geo, cat,
                                 "interest_by_region", <<resolution>>, buildOk)
          /\ iregion' = iregion
          /\ status' = [status EXCEPT !["region"] = "raised"]
          /\ out' = out \o <<RegionHeader, RegionError>>
     \/ \E fr \in frames \cup {NoRegion} :
        \E mapOk \in MapOutcomes(keywords, resolution, fr) :
          /\ calls' = FetchCalls(calls, keywords, timeframe, geo, cat,
                                 "interest_by_region", <<resolution>>, TRUE)
          /\ iregion' = fr
          /\ status' = [status EXCEPT !["region"] = "returned"]
          /\ out' = out \o <<RegionHeader>>
                        \o RegionElements(keywords, resolution, fr, mapOk)
  /\ pc' = "related"
  /\ UNCHANGED <<export, default_keywords, timeframe, geo, resolution, cat, keywords,
                 iot, related>>

SmallFrames == RegionFrames(MaxRows, {100}, {101})

InterestByRegion == RegionStage(SmallFrames)

RelatedHeader == Ev("related", "subheader", <<"Related queries">>)
Success == Ev("run", "success", <<"Analysis complete.">>)

\* the related-queries stage, and the end of the run
RelatedQueries ==
  /\ pc = "related"
  /\ \/ \E buildOk \in BOOLEAN :
          /\ calls' = FetchCalls(calls, keywords, timeframe, geo, cat,
                                 "related_queries", <<>>, buildOk)
          /\ related' = related
          /\ status' = [status EXCEPT !["related"] = "raised"]
          /\ out' = out \o <<RelatedHeader, RelatedError, Success>>
     \/ \E rel \in RelatedResults(keywords) :
          /\ calls' = FetchCalls(calls, keywords, timeframe, geo, cat,
                                 "related_queries", <<>>, TRUE)
          /\ related' = rel
          /\ status' = [status EXCEPT !["related"] = "returned"]
          /\ out' = out \o <<RelatedHeader>> \o RelatedElements(rel, keywords)
                        \o <<Success>>
  /\ pc' = "done"
  /\ UNCHANGED <<export, default_keywords, timeframe, geo, resolution, cat, keywords,
                 iot, iregion>>

\* the page is loaded again: nothing of a run outlives it
Rerun ==
  /\ pc = "done"
  /\ pc' = "idle"
  /\ default_keywords' = <<>>
  /\ timeframe' = "today 12-m"
  /\ geo' = ""
  /\ resolution' = "COUNTRY"
  /\ cat' = 0
  /\ keywords' = <<>>
  /\ calls' = <<>>
  /\ out' = <<>>
  /\ status' = NoStatus
  /\ iot' = EmptyFrame
  /\ iregion' = NoRegion
  /\ related' = <<>>
  /\ UNCHANGED export

Next ==
  \/ RunAnalysis
  \/ InitPytrends
  \/ InterestOverTime
  \/ InterestByRegion
  \/ RelatedQueries
  \/ Rerun

Spec == Init /\ [][Next]_vars

\* ---------------------------------------------------------------- ranking
\* the run with one keyword and the default sidebar, just before its region
\* stage: the interest-over-time stage returned no data
InitTop ==
  /\ pc = "region"
  /\ default_keywords = <<"a">>
  /\ timeframe = "today 12-m"
  /\ geo = ""
  /\ resolution \in Resolutions
  /\ cat = 0
  /\ keywords = ParseKeywords(default_keywords)
  /\ calls = FetchCalls(<<>>, keywords, timeframe, geo, cat, "interest_over_time", <<>>, TRUE)
  /\ iot = EmptyFrame
  /\ out = << Ev("run", "info", <<keywords, timeframe, geo>>) >> \o IotElements(keywords, iot)
  /\ status = [NoStatus EXCEPT !["iot"] = "returned"]
  /\ iregion = NoRegion
  /\ related = <<>>
  /\ export = NoExport

RankFrames == RegionFrames(MaxRegionRows, {0, 1, 2, 100}, {3, 101})

RankRegions == RegionStage(RankFrames)

NextTop == RankRegions

SpecTop == InitTop /\ [][NextTop]_vars

\* ------------------------------------------------------------ export check
\* a table to export, nothing else on the page
InitCsv ==
  /\ pc = "idle"
  /\ default_keywords = <<>>
  /\ timeframe = "today 12-m"
  /\ geo = ""
  /\ resolution = "COUNTRY"
  /\ cat = 0
  /\ keywords = <<>>
  /\ calls = <<>>
  /\ out = <<>>
  /\ status = NoStatus
  /\ iot = EmptyFrame
  /\ iregion = NoRegion
  /\ related = <<>>
  /\ \E t \in CsvTables : export = [NoExport EXCEPT !.phase = "table", !.table = t]

\* csv_bytes = df_to_csv_bytes(df)
Export ==
  /\ export.phase = "table"
  /\ export' = [export EXCEPT !.phase = "buffer", !.buf = df_to_csv_bytes(export.table)]
  /\ UNCHANGED <<pc, default_keywords, timeframe, geo, resolution, cat, keywords,
                 calls, out, status, iot, iregion, related>>

\* the download is read back as a table
ReadBack ==
  /\ export.phase = "buffer"
  /\ export' = [export EXCEPT !.phase = "parsed", !.parsed = read_csv(read(export.buf))]
  /\ UNCHANGED <<pc, default_keywords, timeframe, geo, resolution, cat, keywords,
                 calls, out, status, iot, iregion, related>>

NextCsv == Export \/ ReadBack

SpecCsv == InitCsv /\ [][NextCsv]_vars

\* ------------------------------------------------------------- properties
StageOut(stage) == LET In(e) == e.stage = stage IN SelectSeq(out, In)
Has(stage, w) == \E i \in 1..Len(out) : out[i].stage = stage /\ out[i].w = w
Count(stage, w) == LET Is(e) == e.stage = stage /\ e.w = w IN Len(SelectSeq(out, Is))
IsFetch(c) == c.op # "build_payload"
Fetches == SelectSeq(calls, IsFetch)
ValidationError == Ev("run", "error", <<"Please enter at least one keyword.">>)

\* C1: in a run with at least one keyword, a stage whose fetch raises has its
\* failure reported inline for that stage, and the other two stages are still
\* executed.
C1_StagesIndependentlyGuarded ==
  pc = "done" =>
    \A s \in Stages :
      status[s] = "raised" =>
        /\ \E i \in 1..Len(out) : out[i].w = "error" /\ out[i].stage \in {s, "run"}
        /\ \A t \in Stages \ {s} : status[t] # "none"

\* C2: when the keyword text yields no keyword (it is empty or holds only
\* blanks and commas) the run reports the validation error and makes no call
\* on the adapter: no payload build and no fetch.
OnlyBlanksAndCommas(text) == \A i \in 1..Len(text) : text[i] \in {" ", ","}

C2_NoKeywordsNoFetch ==
  (pc # "idle" /\ (keywords = <<>> \/ OnlyBlanksAndCommas(default_keywords))) =>
    /\ pc = "done"
    /\ calls = <<>>
    /\ out = <<ValidationError>>
    /\ \A s \in Stages : status[s] = "none"

C2_Witness ==
  /\ pc = "done"
  /\ default_keywords = <<" ", ",", " ">>
  /\ out = <<ValidationError>>
  /\ calls = <<>>

\* C3: when the time-series fetch returns a table without rows, the stage
\* writes one warning and nothing else: no table, no chart, no download, and
\* no error is reported.
C3_EmptySeriesWarnsOnly ==
  (status["iot"] = "returned" /\ iot.nrows = 0) =>
    /\ StageOut("iot") = << Ev("iot", "warning", <<"No data returned for the chosen parameters.">>) >>
    /\ \A i \in 1..Len(out) : out[i].w = "error" => out[i].stage \in {"region", "related"}

C3_Witness ==
  /\ pc = "region"
  /\ status["iot"] = "returned"
  /\ iot.nrows = 0
  /\ Count("iot", "warning") = 1
  /\ Len(Fetches) = 1

\* C7: the fetches of a run are issued in the order time series, region,
\* related queries, each at most once, and each right after a payload build
\* from this run's keywords, timeframe, geography and category.
FetchRank(op) ==
  IF op = "interest_over_time" THEN 1 ELSE IF op = "interest_by_region" THEN 2 ELSE 3

C7_FetchesSequentialAfterBuild ==
  LET f == Fetches
      build == Call("build_payload", <<keywords, timeframe, geo, cat>>)
  IN  /\ \A i \in 1..(Len(f) - 1) : FetchRank(f[i].op) < FetchRank(f[i + 1].op)
      /\ \A i \in 1..Len(calls) : IsFetch(calls[i]) => (i > 1 /\ calls[i - 1] = build)
      /\ calls # <<>> => (keywords # <<>> /\ keywords = ParseKeywords(default_keywords))

C7_Witness ==
  /\ pc = "done"
  /\ geo = "US"
  /\ Len(keywords) = 2
  /\ Len(Fetches) = 3
  /\ Fetches[1].op = "interest_over_time"
  /\ Fetches[2].op = "interest_by_region"
  /\ Fetches[3].op = "related_queries"
  /\ Len(calls) = 6

\* C4: in the related-queries stage every keyword for which the result holds
\* no data (no key, None, or an entry whose 'top' and 'rising' are both None
\* or empty) gets the "no related queries" note, and no error is raised.
NoData(rel, kw) ==
  \/ kw \notin DOMAIN rel
  \/ rel[kw].kind # "entry"
  \/ (rel[kw].top # "rows" /\ rel[kw].rising # "rows")

RelatedOut == StageOut("related")
IsMarkdown(e) == e.w = "markdown"
Note == Ev("related", "write", <<"No related queries returned.">>)

\* the note follows the heading of the i-th keyword
NoteFor(i) ==
  \E j \in 1..(Len(RelatedOut) - 1) :
    /\ RelatedOut[j] = Ev("related", "markdown", <<keywords[i]>>)
    /\ Len(SelectSeq(SubSeq(RelatedOut, 1, j), IsMarkdown)) = i
    /\ RelatedOut[j + 1] = Note

C4_NoDataNoted ==
  (pc = "done" /\ status["related"] = "returned") =>
    \A i \in 1..Len(keywords) :
      NoData(related, keywords[i]) => (NoteFor(i) /\ ~Has("related", "error"))

\* C5: a non-empty region result of n rows is shown as min(20, n) rows, in
\* non-increasing order of the first keyword's value; every shown row is a
\* row of the result, none twice, and no row left out has a larger value
\* than a shown one.
IsRegionTable(e) == e.stage = "region" /\ e.w = "dataframe"
ShownRegions == SelectSeq(out, IsRegionTable)[1].v[1].rows

C5_TopRegionsRanked ==
  (status["region"] = "returned" /\ ~iregion.none /\ iregion.rows # <<>>) =>
    /\ Count("region", "dataframe") = 1
    /\ LET shown == ShownRegions
           n == Len(iregion.rows)
       IN  /\ Len(shown) = IF n < 20 THEN n ELSE 20
           /\ \A i \in 1..(Len(shown) - 1) : shown[i].val >= shown[i + 1].val
           /\ \A i \in 1..Len(shown) : shown[i] \in Range(iregion.rows)
           /\ \A i \in 1..Len(shown) : \A j \in 1..Len(shown) :
                i # j => shown[i].label # shown[j].label
           /\ \A r \in Range(iregion.rows) :
                r \notin Range(shown) => \A i \in 1..Len(shown) : shown[i].val >= r.val

\* a result of more than 20 rows, in ascending order, has been ranked
C5_Witness ==
  /\ status["region"] = "returned"
  /\ Len(iregion.rows) = 21
  /\ iregion.rows[1].val < iregion.rows[21].val
  /\ Count("region", "dataframe") = 1
  /\ Len(ShownRegions) = 20
  /\ ShownRegions[1] = iregion.rows[21]

\* C6 as stated: the map render is attempted only for the country resolution
\* and a table with a region-name column; when it fails, the table stays and
\* nothing else is written in the region stage (no error, no message), and
\* the related-queries stage runs.
MapAttempted == Has("region", "choropleth")
MapFailed == MapAttempted /\ ~Has("region", "plotly_chart")
MapGuard == MapAttempted => (resolution = "COUNTRY" /\ iregion.index_name = "geoName")
RelatedRuns == pc \in {"related", "done"} /\ (pc = "done" => status["related"] # "none")
IsMessage(e) == e.stage = "region" /\ e.w \in {"error", "warning", "info"}

IotPayloadAsEntered ==
  /\ Len(calls) >= 2
  /\ calls[1] = Call("build_payload", <<ParseKeywords(default_keywords), timeframe, geo, cat>>)
  /\ calls[2] = Call("interest_over_time", <<>>)

IsSeriesColumn(kw) == kw \in Range(iot.cols)
NotNamedPartial(kw) == kw # <<"isPartial">>

IsRelatedDownload(e) == e.stage = "related" /\ e.w = "download_button"
RelatedDownloads == SelectSeq(out, IsRelatedDownload)

C10_DistinctDownloadKeys ==
  \A i \in 1..Len(RelatedDownloads) : \A j \in 1..Len(RelatedDownloads) :
    i # j => RelatedDownloads[i].v # RelatedDownloads[j].v

\* C8: a table written by the export and read back gives the same columns in
\* the same order and the same rows in the same order, a table without rows
\* included.
C8_ExportRoundTrips ==
  export.phase = "parsed" =>
    /\ export.parsed.columns = export.table.columns
    /\ export.parsed.rows = export.table.rows

\* a table of two columns and one row whose cells hold a comma and a quote
C8_Witness ==
  /\ export.phase = "parsed"
  /\ export.table = [columns |-> << <<"x">>, <<",">> >>, rows |-> << << <<"\"">>, <<>> >> >>]
  /\ export.parsed = export.table
  /\ export.buf.pos = 0
====
